---- MODULE Spec2Model ----
(***************************************************************************)
(* Model of main.py: the four sheet extractors (extract_data_sheet,        *)
(* extract_typical_levels_sheet, extract_stock_data_sheet,                 *)
(* extract_main_table_sheet), the dispatcher extract_data_from_excel, the  *)
(* csv writer write_exported_data_to_file and main.                        *)
(*                                                                         *)
(* Spec    : one extractor run on one row sequence, statement by statement.*)
(* SpecRun : one run of main() on one workbook.                            *)
(*                                                                         *)
(* A cell is a sequence: <<>> is the empty cell (Python None), any other   *)
(* cell is <<tag, position>>.  A row is a sequence of cells (a tuple as    *)
(* Worksheet.values yields it).  Cell values are compared by value only;   *)
(* the dtype a pandas column takes is not modelled.                        *)
(***************************************************************************)
EXTENDS Integers, Sequences, FiniteSets, TLC

VARIABLES
    \* ---- one extractor call (Spec) ----
    sheet,      \* which extractor runs: the name of its sheet
    rows,       \* the row sequence excel_sheet.values yields
    gen,        \* rows of `rows` the generator `data` has yielded so far
    cols,       \* local `cols`
    data,       \* local `data` after data = list(data)
    df,         \* the DataFrame built by DataFrame(data, columns=cols)
    ret,        \* the value returned by the extractor
    pc,         \* position in the extractor, or "returned" / "raised"
    err,        \* the exception that left the extractor
    \* ---- one run of main (SpecRun) ----
    wb,             \* the workbook: sheet name -> row sequence (absent names are absent sheets)
    rpc,            \* position in main
    idx,            \* index into the registry of the sheet the loop is at
    extracted_data, \* dict built by extract_data_from_excel
    attempted,      \* sheets whose loop iteration started, in order
    tables,         \* sheet name -> Table the handler returned (history)
    all_data,       \* value returned by extract_data_from_excel
    log,            \* records emitted on logger `log`, in order
    out_dir,        \* TRUE when the output directory exists
    widx,           \* index of the next entry of data_map the writer handles
    files,          \* csv files written: file name -> Table
    http,           \* "open" or "closed": the requests session
    exc             \* the exception that ended the run, "" when none

xvars == <<sheet, rows, gen, cols, data, df, ret, pc, err>>
rvars == <<wb, rpc, idx, extracted_data, attempted, tables, all_data, log,
           out_dir, widx, files, http, exc>>
vars == <<xvars, rvars>>

-----------------------------------------------------------------------------
(* Bounds of the explored inputs *)

\* widest row explored
MaxCols == 3
\* most data rows after the header row (Spec)
MaxData == 2
\* most data rows after the header row of a workbook sheet (SpecRun)
RunMaxData == 1

-----------------------------------------------------------------------------
(* Program constants *)

\* islice(data, 6, 7) in extract_data_sheet
DataOffset == 6
\* islice(data, 8, 9) in extract_typical_levels_sheet
TypicalLevelsOffset == 8
\* islice(data, 6, 7) in extract_stock_data_sheet
StockDataOffset == 6
\* islice(data, 7, 8) in extract_main_table_sheet
MainTableOffset == 7
\* df.columns[:-2] in extract_main_table_sheet
TrailingColumns == 2

\* keys of sheets_to_be_extracted, in insertion (= iteration) order
Registry == <<"Main table", "Typical levels", "Data", "Stock data">>
SheetNames == {Registry[i] : i \in 1..Len(Registry)}

\* the islice start of the handler registered for a sheet
HeaderOffset(s) ==
    CASE s = "Data" -> DataOffset
      [] s = "Typical levels" -> TypicalLevelsOffset
      [] s = "Stock data" -> StockDataOffset
      [] s = "Main table" -> MainTableOffset

-----------------------------------------------------------------------------
(* Values *)

\* Python None; also the value of an empty spreadsheet cell
None == <<>>
PyNone == [type |-> "NoneType"]

Min(a, b) == IF a < b THEN a ELSE b
Max(a, b) == IF a > b THEN a ELSE b

RECURSIVE MaxLen(_)
\* the length of the longest row of a list of rows (0 for no rows)
MaxLen(rs) == IF rs = <<>> THEN 0 ELSE Max(Len(Head(rs)), MaxLen(Tail(rs)))

\* a row copied without padding: the record is as short as the tuple
PadRow_ragged(row, k) == row

\* tuple `row` as row of an object array `k` wide: unfilled positions are None
PadRow(row, k) == [j \in 1..k |-> IF j <= Len(row) THEN row[j] ELSE None]

-----------------------------------------------------------------------------
(* itertools.islice over the generator excel_sheet.values *)

\* islice with start and stop read as 1-based row numbers
islice_items_one_based(rs, consumed, start, stop) ==
    SubSeq(rs, consumed + start, IF consumed + stop - 1 < Len(rs) THEN consumed + stop - 1 ELSE Len(rs))

\* the items islice(data, start, stop) yields when `data` has already
\* yielded `consumed` rows of rs (start, stop are 0-based, stop exclusive)
islice_items(rs, consumed, start, stop) ==
    SubSeq(rs, consumed + start + 1, Min(consumed + stop, Len(rs)))

\* an islice over a second, fresh iterator: `data` itself yields nothing
islice_consumed_fresh(rs, consumed, start, stop) == consumed

\* how many rows of rs the generator has yielded after the islice is exhausted
islice_consumed(rs, consumed, start, stop) == Min(consumed + stop, Len(rs))

\* list(data): the rows the generator has not yielded yet
list_rest(rs, consumed) == SubSeq(rs, consumed + 1, Len(rs))

-----------------------------------------------------------------------------
(* pandas *)

Frame(columns, records) == [type |-> "DataFrame", columns |-> columns, rows |-> records]

\* a constructor that checks the width of an empty list too
DataFrameAccepts_nonempty(d, c) == MaxLen(d) = Len(c)

\* DataFrame(data, columns=cols) accepts the list of tuples iff it is empty
\* or its widest tuple is exactly as wide as cols (else ValueError:
\* "n columns passed, passed data had m columns")
DataFrameAccepts(d, c) == d = <<>> \/ MaxLen(d) = Len(c)

\* DataFrame(data, columns=cols): tuples shorter than the widest are padded with None
DataFrame(d, c) == Frame(c, [i \in 1..Len(d) |-> PadRow(d[i], Len(c))])

\* a record holds a missing value
HasNA(rec) == \E j \in 1..Len(rec) : rec[j] = None

\* every value of a record is missing
AllNA(rec) == \A j \in 1..Len(rec) : rec[j] = None

\* df.dropna(how="all"): only the records without any value are dropped
dropna_how_all(f) == Frame(f.columns, SelectSeq(f.rows, LAMBDA rec : ~AllNA(rec)))

\* df.dropna(): how="any", axis=0: every record holding a missing value is dropped
dropna(f) == Frame(f.columns, SelectSeq(f.rows, LAMBDA rec : ~HasNA(rec)))

\* df.columns[:-n]
columns_but_last(f, n) == SubSeq(f.columns, 1, Len(f.columns) - n)

RECURSIVE PositionsOf(_, _, _)
\* positions p >= from of `columns` whose label is `label`, ascending
PositionsOf(columns, label, from) ==
    IF from > Len(columns) THEN <<>>
    ELSE (IF columns[from] = label THEN <<from>> ELSE <<>>)
         \o PositionsOf(columns, label, from + 1)

RECURSIVE Indexer(_, _)
\* the column positions a list of labels selects: for each label in turn,
\* every column carrying that label (Index.get_indexer_non_unique)
Indexer(columns, labels) ==
    IF labels = <<>> THEN <<>>
    ELSE PositionsOf(columns, Head(labels), 1) \o Indexer(columns, Tail(labels))

\* df[labels]: selection of columns by label
getitem(f, labels) ==
    LET ix == Indexer(f.columns, labels)
    IN Frame([k \in 1..Len(ix) |-> f.columns[ix[k]]],
             [i \in 1..Len(f.rows) |-> [k \in 1..Len(ix) |-> f.rows[i][ix[k]]]])

\* a test for "no records" only
empty_no_rows(f) == Len(f.rows) = 0

\* df.empty: some axis has length 0
empty(f) == Len(f.rows) = 0 \/ Len(f.columns) = 0

-----------------------------------------------------------------------------
(* The extractors as functions of the row sequence *)

Raised(e) == [ok |-> FALSE, err |-> e]
Returned(v) == [ok |-> TRUE, value |-> v]

\* the statements the four handlers share:
\*   data = excel_sheet.values; cols = list(islice(data, k, k+1))[0]
\*   data = list(data); DataFrame(data, columns=cols)
read_frame(rs, k) ==
    LET items == islice_items(rs, 0, k, k + 1)
        rest == list_rest(rs, islice_consumed(rs, 0, k, k + 1))
    IN IF items = <<>> THEN Raised("IndexError")
       ELSE IF ~DataFrameAccepts(rest, items[1]) THEN Raised("ValueError")
       ELSE Returned(DataFrame(rest, items[1]))

extract_data_sheet(rs) == read_frame(rs, DataOffset)

extract_stock_data_sheet(rs) == read_frame(rs, StockDataOffset)

extract_typical_levels_sheet(rs) ==
    LET r == read_frame(rs, TypicalLevelsOffset)
    IN IF r.ok THEN Returned(dropna(r.value)) ELSE r

extract_main_table_sheet(rs) ==
    LET r == read_frame(rs, MainTableOffset)
    IN IF r.ok
       THEN Returned(getitem(r.value, columns_but_last(r.value, TrailingColumns)))
       ELSE r

\* sheets_to_be_extracted[s](ws)
handler_func(s, rs) ==
    CASE s = "Main table" -> extract_main_table_sheet(rs)
      [] s = "Typical levels" -> extract_typical_levels_sheet(rs)
      [] s = "Data" -> extract_data_sheet(rs)
      [] s = "Stock data" -> extract_stock_data_sheet(rs)

-----------------------------------------------------------------------------
(* Explored inputs *)

\* a title / notes row above the header row
TitleRow(i) == << <<"t", i>> >>
Filler(n) == [i \in 1..n |-> TitleRow(i)]

\* header rows w wide: distinct labels; the last label repeating the first;
\* the second label repeating the first; an empty first header cell
HeaderRows(w) ==
    { [i \in 1..w |-> <<"h", i>>],
      [i \in 1..w |-> IF i = w THEN <<"h", 1>> ELSE <<"h", i>>],
      [i \in 1..w |-> IF i = 2 THEN <<"h", 1>> ELSE <<"h", i>>],
      [i \in 1..w |-> IF i = 1 THEN None ELSE <<"h", i>>] }

\* data rows w wide: two fully populated rows, a blank separator row, and a
\* row whose first cell is empty
DataRows(w) ==
    { [i \in 1..w |-> <<"x", i>>],
      [i \in 1..w |-> <<"y", i>>],
      [i \in 1..w |-> None],
      [i \in 1..w |-> IF i = 1 THEN None ELSE <<"x", i>>] }

Widths == 1..MaxCols
AllHeaderRows == UNION {HeaderRows(w) : w \in Widths}
AllDataRows == UNION {DataRows(w) : w \in Widths}
DataSeqs == UNION {[1..n -> AllDataRows] : n \in 0..MaxData}

\* the row sequences explored for the handler with islice start k: too short
\* to hold a header row, or k rows, a header row and up to MaxData data rows
\* of any widths
Inputs(k) ==
    {Filler(n) : n \in 0..k}
    \cup {Filler(k) \o <<h>> \o d : h \in AllHeaderRows, d \in DataSeqs}

-----------------------------------------------------------------------------
(* Spec: one extractor call, statement by statement *)

RunIdle ==
    /\ wb = <<>> /\ rpc = "idle" /\ idx = 0 /\ extracted_data = <<>>
    /\ attempted = <<>> /\ tables = <<>> /\ all_data = <<>> /\ log = <<>>
    /\ out_dir = FALSE /\ widx = 0 /\ files = <<>> /\ http = "open" /\ exc = ""

ExtractIdle ==
    /\ sheet = "" /\ rows = <<>> /\ gen = 0 /\ cols = <<>> /\ data = <<>>
    /\ df = PyNone /\ ret = PyNone /\ pc = "idle" /\ err = ""

\* data = excel_sheet.values: a fresh generator over the sheet's rows
Init ==
    /\ sheet \in SheetNames
    /\ rows \in Inputs(HeaderOffset(sheet))
    /\ gen = 0 /\ cols = <<>> /\ data = <<>>
    /\ df = PyNone /\ ret = PyNone /\ pc = "islice" /\ err = ""
    /\ RunIdle

\* cols = list(islice(data, k, k + 1))[0]
ReadHeader ==
    /\ pc = "islice"
    /\ LET k == HeaderOffset(sheet)
           items == islice_items(rows, gen, k, k + 1)
       IN /\ gen' = islice_consumed(rows, gen, k, k + 1)
          /\ IF items = <<>>
             THEN pc' = "raised" /\ err' = "IndexError" /\ cols' = cols
             ELSE pc' = "list" /\ err' = err /\ cols' = items[1]
    /\ UNCHANGED <<sheet, rows, data, df, ret, rvars>>

\* data = list(data)
ReadData ==
    /\ pc = "list"
    /\ data' = list_rest(rows, gen)
    /\ gen' = Len(rows)
    /\ pc' = "frame"
    /\ UNCHANGED <<sheet, rows, cols, df, ret, err, rvars>>

\* DataFrame(data, columns=cols)
BuildFrame ==
    /\ pc = "frame"
    /\ IF DataFrameAccepts(data, cols)
       THEN df' = DataFrame(data, cols) /\ pc' = "post" /\ err' = err
       ELSE df' = df /\ pc' = "raised" /\ err' = "ValueError"
    /\ UNCHANGED <<sheet, rows, gen, cols, data, ret, rvars>>

\* return DataFrame(data, columns=cols)   (extract_data_sheet, extract_stock_data_sheet)
ReturnFrame ==
    /\ pc = "post"
    /\ sheet \in {"Data", "Stock data"}
    /\ ret' = df
    /\ pc' = "returned"
    /\ UNCHANGED <<sheet, rows, gen, cols, data, df, err, rvars>>

\* return DataFrame(data, columns=cols).dropna()   (extract_typical_levels_sheet)
ReturnDropna ==
    /\ pc = "post"
    /\ sheet = "Typical levels"
    /\ ret' = dropna(df)
    /\ pc' = "returned"
    /\ UNCHANGED <<sheet, rows, gen, cols, data, df, err, rvars>>

\* return df[df.columns[:-2]]   (extract_main_table_sheet)
ReturnTrimmed ==
    /\ pc = "post"
    /\ sheet = "Main table"
    /\ ret' = getitem(df, columns_but_last(df, TrailingColumns))
    /\ pc' = "returned"
    /\ UNCHANGED <<sheet, rows, gen, cols, data, df, err, rvars>>

Next ==
    \/ ReadHeader
    \/ ReadData
    \/ BuildFrame
    \/ ReturnFrame
    \/ ReturnDropna
    \/ ReturnTrimmed

Spec == Init /\ [][Next]_vars

\* the statement-by-statement run and the handler as a function agree
StepsAgree ==
    LET r == handler_func(sheet, rows)
    IN /\ pc = "returned" => r.ok /\ r.value = ret
       /\ pc = "raised" => ~r.ok /\ r.err = err

-----------------------------------------------------------------------------
(* SpecRun: one run of main() *)

\* the sheets explored in a workbook for the handler with islice start k:
\* k rows only (no header row), or k rows, a header row of distinct labels
\* as wide as the trimmed columns or one wider, and up to RunMaxData rows
\* each fully populated or blank
RunHeader(w) == [i \in 1..w |-> <<"h", i>>]
RunRows(w) == {[i \in 1..w |-> <<"x", i>>], [i \in 1..w |-> None]}
RunWidths == {TrailingColumns, TrailingColumns + 1}
RunSheets(k) ==
    {Filler(k)}
    \cup UNION {{Filler(k) \o <<RunHeader(w)>> \o d :
                    d \in UNION {[1..n -> RunRows(w)] : n \in 0..RunMaxData}} :
                 w \in RunWidths}

\* a sheet of the workbook, or the mark of a sheet the workbook lacks
Absent == [type |-> "absent"]
SheetChoices(s) == {[type |-> "Worksheet", values |-> rs] : rs \in RunSheets(HeaderOffset(s))}
                   \cup {Absent}

\* keys of the dict literal extracted_data, in insertion order
DataMapKeys == <<"Main table", "Typical levels", "Data", "Stock data">>

\* extracted_data = {"Main table": None, "Typical levels": None, "Data": None, "Stock data": None}
InitialExtracted == [s \in {DataMapKeys[i] : i \in 1..Len(DataMapKeys)} |-> PyNone]

\* extracted_data.update({sheet: extract})
update(d, s, v) == [x \in DOMAIN d \cup {s} |-> IF x = s THEN v ELSE d[x]]

LogRecord(level, msg, s) == [level |-> level, msg |-> msg, sheet |-> s]
\* log.info("Export values for `{0}` sheet".format(sheet))
ExportInfo(s) == LogRecord("INFO", "Export values", s)
\* log.warning(f"Sheet `{sheet}` extracted empty data frame")
EmptyWarning(s) == LogRecord("WARNING", "extracted empty data frame", s)

\* a handler that swallows the exception and goes on with the next sheet
uncaught_swallowed(e) == "loop"

\* where main is after an exception no statement catches: the run is over
uncaught(e) == "raised"

\* df.to_csv(path, index=False): the header line, then one line per record
to_csv(f) == [header |-> f.columns, lines |-> f.rows]

RunInit ==
    /\ \E m \in SheetChoices("Main table"), t \in SheetChoices("Typical levels"),
          d \in SheetChoices("Data"), k \in SheetChoices("Stock data") :
          LET c == [s \in SheetNames |->
                      CASE s = "Main table" -> m [] s = "Typical levels" -> t
                        [] s = "Data" -> d [] s = "Stock data" -> k]
          IN wb = [s \in {x \in SheetNames : c[x] # Absent} |-> c[s].values]
    /\ rpc = "get_excel_file" /\ idx = 0 /\ extracted_data = <<>>
    /\ attempted = <<>> /\ tables = <<>> /\ all_data = <<>> /\ log = <<>>
    /\ out_dir = FALSE /\ widx = 0 /\ files = <<>> /\ http = "open" /\ exc = ""
    /\ ExtractIdle

\* get_excel_file: the download succeeds
GetExcelFileOk ==
    /\ rpc = "get_excel_file"
    /\ log' = log \o <<LogRecord("INFO", "Get", ""), LogRecord("INFO", "File ready", "")>>
    /\ rpc' = "load_workbook"
    /\ UNCHANGED <<wb, idx, extracted_data, attempted, tables, all_data, out_dir,
                   widx, files, http, exc, xvars>>

\* get_excel_file: requests.RequestException: close the session, sys.exit(-1)
GetExcelFileFails ==
    /\ rpc = "get_excel_file"
    /\ log' = Append(log, LogRecord("INFO", "Get", ""))
    /\ http' = "closed"
    /\ rpc' = "exit"
    /\ exc' = "SystemExit"
    /\ UNCHANGED <<wb, idx, extracted_data, attempted, tables, all_data, out_dir,
                   widx, files, xvars>>

\* extract_data_from_excel up to the loop: load_workbook, extracted_data = {...: None}
LoadWorkbook ==
    /\ rpc = "load_workbook"
    /\ extracted_data' = InitialExtracted
    /\ idx' = 1
    /\ rpc' = "loop"
    /\ UNCHANGED <<wb, attempted, tables, all_data, log, out_dir, widx, files,
                   http, exc, xvars>>

\* the sheet the loop is at
Current == Registry[idx]
InLoop == rpc = "loop" /\ idx <= Len(Registry)

\* loop body: wb.get_sheet_by_name(sheet) raises KeyError
SheetNotFound ==
    /\ InLoop
    /\ Current \notin DOMAIN wb
    /\ log' = Append(log, ExportInfo(Current))
    /\ attempted' = Append(attempted, Current)
    /\ rpc' = uncaught("KeyError")
    /\ exc' = "KeyError"
    /\ idx' = idx + 1
    /\ UNCHANGED <<wb, extracted_data, tables, all_data, out_dir, widx, files,
                   http, xvars>>

\* loop body: handler_func(ws) raises
HandlerRaises ==
    /\ InLoop
    /\ Current \in DOMAIN wb
    /\ LET r == handler_func(Current, wb[Current])
       IN /\ ~r.ok
          /\ rpc' = uncaught(r.err)
          /\ exc' = r.err
    /\ log' = Append(log, ExportInfo(Current))
    /\ attempted' = Append(attempted, Current)
    /\ idx' = idx + 1
    /\ UNCHANGED <<wb, extracted_data, tables, all_data, out_dir, widx, files,
                   http, xvars>>

\* loop body: the extract is not empty: extracted_data.update({sheet: extract}); continue
StoreExtract ==
    /\ InLoop
    /\ Current \in DOMAIN wb
    /\ LET r == handler_func(Current, wb[Current])
       IN /\ r.ok
          /\ ~empty(r.value)
          /\ extracted_data' = update(extracted_data, Current, r.value)
          /\ tables' = update(tables, Current, r.value)
    /\ log' = Append(log, ExportInfo(Current))
    /\ attempted' = Append(attempted, Current)
    /\ idx' = idx + 1
    /\ UNCHANGED <<wb, rpc, all_data, out_dir, widx, files, http, exc, xvars>>

\* loop body: the extract is empty: log.warning(...)
WarnEmpty ==
    /\ InLoop
    /\ Current \in DOMAIN wb
    /\ LET r == handler_func(Current, wb[Current])
       IN /\ r.ok
          /\ empty(r.value)
          /\ tables' = update(tables, Current, r.value)
    /\ log' = log \o <<ExportInfo(Current), EmptyWarning(Current)>>
    /\ attempted' = Append(attempted, Current)
    /\ idx' = idx + 1
    /\ UNCHANGED <<wb, rpc, extracted_data, all_data, out_dir, widx, files, http,
                   exc, xvars>>

\* return extracted_data; all_data = extract_data_from_excel(file)
ReturnExtracted ==
    /\ rpc = "loop"
    /\ idx > Len(Registry)
    /\ all_data' = extracted_data
    /\ rpc' = "makedir"
    /\ UNCHANGED <<wb, idx, extracted_data, attempted, tables, log, out_dir, widx,
                   files, http, exc, xvars>>

\* write_exported_data_to_file up to the loop; os.path.exists(out_dir) is
\* whatever the file system says
PrepareOutDir ==
    /\ rpc = "makedir"
    /\ \E exists \in BOOLEAN :
          log' = log \o (IF exists THEN <<>>
                         ELSE <<LogRecord("INFO", "Creating output dir", "")>>)
                    \o <<LogRecord("INFO", "Write data to csv files", "")>>
    /\ out_dir' = TRUE
    /\ widx' = 1
    /\ rpc' = "write"
    /\ UNCHANGED <<wb, idx, extracted_data, attempted, tables, all_data, files,
                   http, exc, xvars>>

\* df.to_csv(os.path.join(out_dir, file + ".csv"), index=False), df a DataFrame
WriteCsv ==
    /\ rpc = "write"
    /\ widx <= Len(DataMapKeys)
    /\ all_data[DataMapKeys[widx]] # PyNone
    /\ files' = update(files, DataMapKeys[widx], to_csv(all_data[DataMapKeys[widx]]))
    /\ widx' = widx + 1
    /\ UNCHANGED <<wb, rpc, idx, extracted_data, attempted, tables, all_data, log,
                   out_dir, http, exc, xvars>>

\* df.to_csv(...), df None: AttributeError
WriteNoneRaises ==
    /\ rpc = "write"
    /\ widx <= Len(DataMapKeys)
    /\ all_data[DataMapKeys[widx]] = PyNone
    /\ rpc' = uncaught("AttributeError")
    /\ exc' = "AttributeError"
    /\ UNCHANGED <<wb, idx, extracted_data, attempted, tables, all_data, log,
                   out_dir, widx, files, http, xvars>>

\* http.close(); log.info("Done!")
Finish ==
    /\ rpc = "write"
    /\ widx > Len(DataMapKeys)
    /\ http' = "closed"
    /\ log' = Append(log, LogRecord("INFO", "Done!", ""))
    /\ rpc' = "done"
    /\ UNCHANGED <<wb, idx, extracted_data, attempted, tables, all_data, out_dir,
                   widx, files, exc, xvars>>

RunNext ==
    \/ GetExcelFileOk
    \/ GetExcelFileFails
    \/ LoadWorkbook
    \/ SheetNotFound
    \/ HandlerRaises
    \/ StoreExtract
    \/ WarnEmpty
    \/ ReturnExtracted
    \/ PrepareOutDir
    \/ WriteCsv
    \/ WriteNoneRaises
    \/ Finish

SpecRun == RunInit /\ [][RunNext]_vars

-----------------------------------------------------------------------------
(* Claims about the extractors (checked under Spec) *)

\* the header offsets of the specification's table (section 4.1)
SpecOffset(s) ==
    CASE s = "Data" -> 6
      [] s = "Typical levels" -> 8
      [] s = "Stock data" -> 6
      [] s = "Main table" -> 7

\* the data rows of the input: those after the row at the specified offset
RawData == SubSeq(rows, SpecOffset(sheet) + 2, Len(rows))
\* the row at the specified offset
RawHeader == rows[SpecOffset(sheet) + 1]
HasHeader == Len(rows) > SpecOffset(sheet)
HasShortRow == HasHeader /\ \E i \in 1..Len(RawData) : Len(RawData[i]) < Len(RawHeader)
\* the widest data row is exactly as wide as the header row
WidestFitsHeader ==
    /\ \A i \in 1..Len(RawData) : Len(RawData[i]) <= Len(RawHeader)
    /\ \E i \in 1..Len(RawData) : Len(RawData[i]) = Len(RawHeader)
\* record rec pairs the cells of raw row r with the columns by position,
\* the positions r does not reach being empty
PairsByPosition(rec, r, w) ==
    /\ Len(rec) = w
    /\ \A j \in 1..w : rec[j] = IF j <= Len(r) THEN r[j] ELSE None
Distinct(seq) == \A i, j \in 1..Len(seq) : seq[i] = seq[j] => i = j

\* C1: for every extractor and every row sequence with more than `offset`
\* rows, the header is the row at 0-based index `offset` and the candidate
\* records (before post-processing) are exactly the rows after it, in order:
\* no row at or before the header is a record and no later row is skipped.
C1_HeaderAndRecords ==
    LET k == SpecOffset(sheet)
    IN /\ HasHeader => ~(pc = "raised" /\ err = "IndexError")
       /\ pc \in {"list", "frame", "post", "returned"} => HasHeader /\ cols = RawHeader
       /\ pc \in {"frame", "post", "returned"} => data = RawData
       /\ pc \in {"post", "returned"} =>
            /\ df.columns = RawHeader
            /\ Len(df.rows) = Len(rows) - (k + 1)
            /\ \A i \in 1..Len(df.rows) :
                 \A j \in 1..Len(rows[k + 1 + i]) :
                    j <= Len(df.rows[i]) /\ df.rows[i][j] = rows[k + 1 + i][j]

\* C1 witness: an extractor returned a table built from two different data rows
C1_Witness ==
    /\ pc = "returned"
    /\ Len(rows) = SpecOffset(sheet) + 3
    /\ RawData[1] # RawData[2]
    /\ Len(df.rows) = 2

\* the candidate records without an empty value, as indices into df.rows
FullRecords == {i \in 1..Len(df.rows) : \A j \in 1..Len(df.rows[i]) : df.rows[i][j] # None}
\* the k-th smallest index of a set of indices
Nth(S, k) == CHOOSE i \in S : Cardinality({m \in S : m < i}) = k - 1

\* C2: "Typical levels": a candidate record is in the output iff it holds no
\* empty value; kept records are unchanged and keep their relative order.
C2_TypicalLevelsDropsIncomplete ==
    (sheet = "Typical levels" /\ pc = "returned") =>
        /\ ret.columns = df.columns
        /\ Len(ret.rows) = Cardinality(FullRecords)
        /\ \A n \in 1..Len(ret.rows) : ret.rows[n] = df.rows[Nth(FullRecords, n)]

\* C2 witness: "Typical levels" returned after dropping a record with some but
\* not all values empty and keeping the fully populated record after it
C2_Witness ==
    /\ sheet = "Typical levels" /\ pc = "returned"
    /\ Len(df.rows) = 2 /\ Len(ret.rows) = 1
    /\ HasNA(df.rows[1]) /\ ~AllNA(df.rows[1])
    /\ ret.rows[1] = df.rows[2]

\* C3: "Main table", raw column count >= 2: the output header and every
\* output record are the raw header / record without their last two
\* entries, values and order kept; no record is dropped.
C3_MainTableDropsLastTwo ==
    (sheet = "Main table" /\ pc = "returned" /\ Len(df.columns) >= 2) =>
        LET w == Len(df.columns) - 2
        IN /\ ret.columns = SubSeq(df.columns, 1, w)
           /\ Len(ret.rows) = Len(df.rows)
           /\ \A i \in 1..Len(ret.rows) : ret.rows[i] = SubSeq(df.rows[i], 1, w)

\* C4: fewer than offset + 1 rows: the extractor fails with the index error
\* and never returns a table (nor builds one).
C4_ShortSheetRaises ==
    ~HasHeader =>
        /\ pc \in {"islice", "raised"}
        /\ pc = "raised" => err = "IndexError"
        /\ df = PyNone /\ ret = PyNone

\* C4 witness: the extractor raised IndexError on exactly `offset` rows
C4_Witness ==
    /\ pc = "raised" /\ err = "IndexError"
    /\ Len(rows) = SpecOffset(sheet)

-----------------------------------------------------------------------------
(* Claims about the dispatcher and main (checked under SpecRun) *)

\* extract_data_from_excel has returned
ExtractReturned == rpc \in {"makedir", "write", "done"} \/ (rpc = "raised" /\ exc = "AttributeError")
\* the table extracted for sheet s has no record
ZeroRecords(s) == Len(tables[s].rows) = 0

\* C6: after extract_data_from_excel returns, a registered sheet whose table
\* has zero records is not a key of the result, every other registered sheet
\* maps to its table, and the result has no other key.
C6_EmptySheetsOmitted ==
    ExtractReturned =>
        /\ DOMAIN all_data \subseteq SheetNames
        /\ \A s \in SheetNames :
             IF ZeroRecords(s) THEN s \notin DOMAIN all_data
             ELSE s \in DOMAIN all_data /\ all_data[s] = tables[s]

\* the order in which the registry is iterated
RegistryOrder == <<"Main table", "Typical levels", "Data", "Stock data">>
\* the lookup of sheet s, or its extractor, fails
SheetFails(s) == s \notin DOMAIN wb \/ Len(wb[s]) < SpecOffset(s) + 1
FailureOf(s) == IF s \notin DOMAIN wb THEN "KeyError" ELSE "IndexError"

\* C7: sheets are attempted in registry order; when a registered sheet is
\* absent or its extractor fails, the failure reaches the caller unmodified:
\* no later sheet is attempted, nothing is returned (not even a partial
\* result), nothing is written and the dispatcher does not recover.
C7_FailurePropagates ==
    /\ Len(attempted) <= Len(RegistryOrder)
    /\ \A i \in 1..Len(attempted) :
         /\ attempted[i] = RegistryOrder[i]
         /\ SheetFails(attempted[i]) =>
              /\ i = Len(attempted)
              /\ rpc = "raised"
              /\ exc = FailureOf(attempted[i])
              /\ all_data = <<>>
              /\ files = <<>>
              /\ attempted[i] \notin DOMAIN tables
    /\ ExtractReturned =>
         /\ Len(attempted) = Len(RegistryOrder)
         /\ \A s \in SheetNames : ~SheetFails(s)

\* C7 witness: the second sheet's extractor failed after the first sheet was
\* extracted, and a later registered sheet is absent too
C7_Witness ==
    /\ rpc = "raised" /\ exc = "IndexError"
    /\ attempted = <<"Main table", "Typical levels">>
    /\ "Main table" \in DOMAIN tables
    /\ "Data" \notin DOMAIN wb

\* the records extract_data_from_excel logged, in order
ExportLog == SelectSeq(log, LAMBDA r : r.msg \in {"Export values", "extracted empty data frame"})

RECURSIVE ExpectedLog(_, _)
\* one INFO record per attempted sheet, in order, each followed by one
\* WARNING record when the sheet is in the set `warned`
ExpectedLog(ss, warned) ==
    IF ss = <<>> THEN <<>>
    ELSE LET s == Head(ss)
         IN <<[level |-> "INFO", msg |-> "Export values", sheet |-> s]>>
            \o (IF s \in warned
                THEN <<[level |-> "WARNING", msg |-> "extracted empty data frame", sheet |-> s]>>
                ELSE <<>>)
            \o ExpectedLog(Tail(ss), warned)

\* C8 as stated: one informational line per sheet attempted (before its lookup
\* and extraction), one warning for each attempted sheet whose table has
\* zero records and none for a sheet whose table has records.
C8_WarningIffZeroRecords ==
    ExportLog = ExpectedLog(attempted, {s \in DOMAIN tables : ZeroRecords(s)})

\* the table extracted for sheet s has no record or no column
ZeroRecordsOrColumns(s) == Len(tables[s].rows) = 0 \/ Len(tables[s].columns) = 0

\* C8 amended: one informational line per sheet attempted (before its lookup
\* and extraction), one warning for each attempted sheet whose table has
\* zero records or zero columns, and none for any other sheet.
C8_WarningIffEmptyFrame ==
    ExportLog = ExpectedLog(attempted, {s \in DOMAIN tables : ZeroRecordsOrColumns(s)})

\* C8 witness: all four sheets were attempted, "Typical levels" was warned
\* about (no record left) and "Data" was not
C8_Witness ==
    /\ ExtractReturned
    /\ Len(attempted) = 4
    /\ ZeroRecords("Typical levels") /\ ~ZeroRecords("Data")
    /\ Len(ExportLog) = 5

\* C10: in a full run every value handed to the write step is a table, the
\* write step does not fail whichever sheets extracted zero records, it
\* writes one csv per sheet with a non-empty table and none for the others,
\* then the session is closed and the run is done.
C10_WriteStepCompletes ==
    /\ ExtractReturned =>
         /\ \A s \in DOMAIN all_data : all_data[s].type = "DataFrame"
         /\ rpc # "raised"
    /\ rpc = "done" =>
         /\ DOMAIN files = {s \in SheetNames : ~ZeroRecords(s)}
         /\ http = "closed"

====
